---- MODULE Spec2Model ----
(***************************************************************************)
(* Model of ptr.py, the positive-time-reporting driver: process_csv()      *)
(* parses a CSV file of weekly hours, run() reconciles the backend's       *)
(* overdue weeks against the parsed (or calendar-supplied) hours and       *)
(* submits them.  Text is modelled as sequences of one-character strings,  *)
(* dates as <<year, month, day>> triples.                                  *)
(***************************************************************************)
EXTENDS Integers, Sequences, FiniteSets, TLC

\* ------------------------------------------------------------------ bounds
\* longest CSV file, in lines
MaxLines == 3
\* number of consecutive reporting weeks the backend and calendar know about
NumWeeks == 3

\* --------------------------------------------------------- program constants
\* hours assumed for an empty workday column (ptr.py:90)
DefaultHours == 8
\* datetime.weekday() of a Sunday (ptr.py:87)
SUNDAY == 6
\* number of comma separated parts of a record (ptr.py:77)
NumParts == 6
\* time_reporter.Time_Reporter.DATE_FORMAT (ptr.py:83)
DATE_FORMAT == "%Y-%m-%d"

\* --------------------------------------------------------------------- text
Digits == {"0", "1", "2", "3", "4", "5", "6", "7", "8", "9"}

Whitespace == {" ", "\n", "\t", "\r"}

DigitVal(c) ==
    CASE c = "0" -> 0 [] c = "1" -> 1 [] c = "2" -> 2 [] c = "3" -> 3
      [] c = "4" -> 4 [] c = "5" -> 5 [] c = "6" -> 6 [] c = "7" -> 7
      [] c = "8" -> 8 [] c = "9" -> 9

DigitChar(n) ==
    CASE n = 0 -> "0" [] n = 1 -> "1" [] n = 2 -> "2" [] n = 3 -> "3"
      [] n = 4 -> "4" [] n = 5 -> "5" [] n = 6 -> "6" [] n = 7 -> "7"
      [] n = 8 -> "8" [] n = 9 -> "9"

AllDigits(s) == \A i \in 1..Len(s) : s[i] \in Digits

RECURSIVE DecValue(_)
\* value of a (possibly empty) string of decimal digits
DecValue(s) ==
    IF Len(s) = 0 THEN 0
    ELSE 10 * DecValue(SubSeq(s, 1, Len(s) - 1)) + DigitVal(s[Len(s)])

RECURSIVE rstrip(_)
\* str.rstrip(): drop trailing whitespace
rstrip(s) ==
    IF Len(s) > 0 /\ s[Len(s)] \in Whitespace
    THEN rstrip(SubSeq(s, 1, Len(s) - 1))
    ELSE s

RECURSIVE lstrip(_)
lstrip(s) ==
    IF Len(s) > 0 /\ s[1] \in Whitespace
    THEN lstrip(SubSeq(s, 2, Len(s)))
    ELSE s

RECURSIVE splitFrom(_, _, _, _)
\* the fields of s from position i on, cur being the field under construction
splitFrom(s, sep, i, cur) ==
    IF i > Len(s) THEN << cur >>
    ELSE IF s[i] = sep THEN << cur >> \o splitFrom(s, sep, i + 1, << >>)
    ELSE splitFrom(s, sep, i + 1, Append(cur, s[i]))

\* str.split(sep) for a one-character separator
split(s, sep) == splitFrom(s, sep, 1, << >>)

\* int(x) for a string: surrounding whitespace and one sign are accepted,
\* anything else than decimal digits raises ValueError (ok = FALSE)
int(x) ==
    LET t    == rstrip(lstrip(x))
        sgn  == Len(t) > 0 /\ t[1] \in {"+", "-"}
        body == IF sgn THEN SubSeq(t, 2, Len(t)) ELSE t
    IN  IF Len(body) > 0 /\ AllDigits(body)
        THEN [ok |-> TRUE,
              val |-> IF sgn /\ t[1] = "-" THEN 0 - DecValue(body)
                      ELSE DecValue(body)]
        ELSE [ok |-> FALSE, val |-> 0]

\* -------------------------------------------------------------------- dates
IsLeap(y) == (y % 4 = 0) /\ ((y % 100 # 0) \/ (y % 400 = 0))

DaysInMonth(y, m) ==
    CASE m \in {1, 3, 5, 7, 8, 10, 12} -> 31
      [] m \in {4, 6, 9, 11} -> 30
      [] OTHER -> IF IsLeap(y) THEN 29 ELSE 28

RECURSIVE DaysBeforeMonth(_, _)
DaysBeforeMonth(y, m) ==
    IF m = 1 THEN 0 ELSE DaysBeforeMonth(y, m - 1) + DaysInMonth(y, m - 1)

\* date.toordinal(): proleptic Gregorian ordinal, 0001-01-01 is day 1
toordinal(d) ==
    LET y == d[1] - 1
    IN  365 * y + (y \div 4) - (y \div 100) + (y \div 400)
        + DaysBeforeMonth(d[1], d[2]) + d[3]

\* date.weekday(): Monday is 0, Sunday is 6
weekday(d) == (toordinal(d) + 6) % 7

\* ordering of dates, as compared by sorted() and min()
DateLess(a, b) == toordinal(a) < toordinal(b)

\* datetime.strptime(s, "%Y-%m-%d"): four-digit year, one or two digit
\* month and day, the whole string consumed, the date must exist
ParseYmd(s) ==
    LET p == split(s, "-")
        shaped == /\ Len(p) = 3
                  /\ Len(p[1]) = 4 /\ AllDigits(p[1])
                  /\ Len(p[2]) \in {1, 2} /\ AllDigits(p[2])
                  /\ Len(p[3]) \in {1, 2} /\ AllDigits(p[3])
    IN  IF ~shaped THEN [ok |-> FALSE, date |-> << 0, 0, 0 >>]
        ELSE LET y == DecValue(p[1])
                 m == DecValue(p[2])
                 d == DecValue(p[3])
             IN  IF y >= 1 /\ m \in 1..12 /\ d >= 1 /\ d <= DaysInMonth(y, m)
                 THEN [ok |-> TRUE, date |-> << y, m, d >>]
                 ELSE [ok |-> FALSE, date |-> << 0, 0, 0 >>]

strptime(s, fmt) ==
    IF fmt = "%Y-%m-%d" THEN ParseYmd(s)
    ELSE [ok |-> FALSE, date |-> << 0, 0, 0 >>]

MonthAbbr(m) ==
    CASE m = 1 -> << "J", "a", "n" >> [] m = 2 -> << "F", "e", "b" >>
      [] m = 3 -> << "M", "a", "r" >> [] m = 4 -> << "A", "p", "r" >>
      [] m = 5 -> << "M", "a", "y" >> [] m = 6 -> << "J", "u", "n" >>
      [] m = 7 -> << "J", "u", "l" >> [] m = 8 -> << "A", "u", "g" >>
      [] m = 9 -> << "S", "e", "p" >> [] m = 10 -> << "O", "c", "t" >>
      [] m = 11 -> << "N", "o", "v" >> [] m = 12 -> << "D", "e", "c" >>

\* n written with at least w decimal digits, zero padded
RECURSIVE Pad(_, _)
Pad(n, w) ==
    IF w <= 1 /\ n < 10 THEN << DigitChar(n) >>
    ELSE Pad(n \div 10, w - 1) \o << DigitChar(n % 10) >>

\* k.strftime('%Y-%b-%d')
strftime(d) == Pad(d[1], 4) \o << "-" >> \o MonthAbbr(d[2]) \o << "-" >> \o Pad(d[3], 2)

RECURSIVE sortedDesc(_)
\* the elements of a set of dates, newest first
sortedDesc(S) ==
    IF S = {} THEN << >>
    ELSE LET hi == CHOOSE x \in S : \A y \in S : ~DateLess(x, y)
         IN  << hi >> \o sortedDesc(S \ {hi})

RECURSIVE sorted(_)
\* sorted( S ) for a set of dates: ascending sequence of its elements
sorted(S) ==
    IF S = {} THEN << >>
    ELSE LET lo == CHOOSE x \in S : \A y \in S : ~DateLess(y, x)
         IN  << lo >> \o sorted(S \ {lo})

\* min( overdue.keys() )
min(S) == CHOOSE x \in S : \A y \in S : ~DateLess(y, x)

\* ------------------------------------------------------------------- inputs
\* the Sunday starting the k-th reporting week, 2023-01-01 being the first
Week(k) == << 2023, 1, 1 + 7 * (k - 1) >>

Weeks == {Week(k) : k \in 1..NumWeeks}

\* weekly records the calendar collaborator may hold
HourChoices == {<< 8, 8, 8, 8, 8 >>, << 0, 4, 8, 8, 8 >>}

EmptyMap == [k \in {} |-> << >>]

\* mappings from some of the weeks to a weekly record
Calendars ==
    UNION {[W -> HourChoices] : W \in SUBSET Weeks}

RECURSIVE Join(_)
\* the parts of a record separated by commas
Join(parts) ==
    IF Len(parts) = 1 THEN parts[1]
    ELSE parts[1] \o << "," >> \o Join(Tail(parts))

\* a line as the iteration over the file yields it, newline included
CsvLine(parts) == Join(parts) \o << "\n" >>

D0101 == << "2", "0", "2", "3", "-", "0", "1", "-", "0", "1" >>
D0102 == << "2", "0", "2", "3", "-", "0", "1", "-", "0", "2" >>
D0108 == << "2", "0", "2", "3", "-", "0", "1", "-", "0", "8" >>
D0115 == << "2", "0", "2", "3", "-", "0", "1", "-", "1", "5" >>
D0230 == << "2", "0", "2", "3", "-", "0", "2", "-", "3", "0" >>
E == << >>

\* 2023-01-01,,,,,            a Sunday, every workday defaulted
LineDefault == CsvLine(<< D0101, E, E, E, E, E >>)
\* 2023-01-08,8,4,0,12,07     a Sunday, explicit hours
LineHours == CsvLine(<< D0108, << "8" >>, << "4" >>, << "0" >>, << "1", "2" >>, << "0", "7" >> >>)
\* 2023-01-01,1,,3,,5         the first Sunday again, other hours
LineAgain == CsvLine(<< D0101, << "1" >>, E, << "3" >>, E, << "5" >> >>)
\* 2023-01-02,8,8,8,8,8       a Monday
LineMonday == CsvLine(<< D0102, << "8" >>, << "8" >>, << "8" >>, << "8" >>, << "8" >> >>)
\* 2023-01-08,8,8             three parts only
LineShort == CsvLine(<< D0108, << "8" >>, << "8" >> >>)
\* 2023-02-30,,,,,            no such day
LineBadDate == CsvLine(<< D0230, E, E, E, E, E >>)
\* 2023-01-15,abc,,,,         a Sunday, an hour column that is not a number
LineBadHour == CsvLine(<< D0115, << "a", "b", "c" >>, E, E, E, E >>)

\* the lines a file may hold, each under a short name
SampleLines ==
    [default |-> LineDefault, hours |-> LineHours, again |-> LineAgain,
     monday |-> LineMonday, short |-> LineShort, baddate |-> LineBadDate,
     badhour |-> LineBadHour]

\* files of at most MaxLines lines, no line written twice; a file is the
\* sequence of the names of its lines
Files ==
    UNION {{f \in [1..n -> DOMAIN SampleLines] :
               \A i, j \in 1..n : i # j => f[i] # f[j]} : n \in 0..MaxLines}

\* parsed command lines: exactly one of --csv, --exch, --list-overdue
ArgsSet ==
    {a \in [csv : {"", "hours.csv"}, exch : BOOLEAN, list_overdue : BOOLEAN,
            dryrun : BOOLEAN, once : BOOLEAN] :
        Cardinality({f \in {"csv", "exch", "list"} :
            \/ f = "csv" /\ a.csv # ""
            \/ f = "exch" /\ a.exch
            \/ f = "list" /\ a.list_overdue}) = 1}

\* -------------------------------------------------------------------- state
VARIABLES
    args,         \* the parsed command line
    backend,      \* weeks the time reporting backend holds as overdue
    csvfile,      \* the file named by --csv: the names of its lines
    calendar,     \* weekly hours known to the calendar collaborator
    pc,           \* position of run(): start, check, csv, loop, exit
    overdue,      \* run(): overdue
    data,         \* run(): data
    dates_hours,  \* process_csv(): dates_hours
    lineNo,       \* process_csv(): index of the next line of the file
    keys,         \* run(): the list sorted( overdue ) the for loop walks
    idx,          \* run(): index of the next key of that list
    visited,      \* keys logged as 'Overdue date'
    calls,        \* reporter.submit() calls made, in order
    submitted,    \* keys logged as 'Successfully submitted'
    stdout,       \* lines printed
    stderr,       \* lines written by the interpreter on exit
    raised,       \* exception that ended the run, "" if none
    exitStatus,   \* process exit status, -1 while running
    reads         \* data sources consulted

vars == << args, backend, csvfile, calendar, pc, overdue, data, dates_hours,
           lineNo, keys, idx, visited, calls, submitted, stdout, stderr,
           raised, exitStatus, reads >>

inputs == << args, backend, csvfile, calendar >>

Init ==
    /\ args \in ArgsSet
    /\ backend \in SUBSET Weeks
    /\ csvfile \in (IF args.csv # "" THEN Files ELSE {<< >>})
    /\ calendar \in (IF args.exch THEN Calendars ELSE {EmptyMap})
    /\ pc = "start"
    /\ overdue = {}
    /\ data = EmptyMap
    /\ dates_hours = EmptyMap
    /\ lineNo = 1
    /\ keys = << >>
    /\ idx = 1
    /\ visited = << >>
    /\ calls = << >>
    /\ submitted = << >>
    /\ stdout = << >>
    /\ stderr = << >>
    /\ raised = ""
    /\ exitStatus = -1
    /\ reads = {}

\* ------------------------------------------------------------ process exit
\* raise SystemExit( arg ): a string argument is written to stderr and the
\* status is 1, no argument gives status 0
SystemExit(msg) ==
    /\ pc' = "exit"
    /\ raised' = "SystemExit"
    /\ stderr' = IF msg = "" THEN stderr ELSE Append(stderr, msg)
    /\ exitStatus' = IF msg = "" THEN 0 ELSE 1

\* an exception nobody catches: traceback and status 1
Uncaught(exc) ==
    /\ pc' = "exit"
    /\ raised' = exc
    /\ stderr' = Append(stderr, "Traceback")
    /\ exitStatus' = 1

\* ------------------------------------------------------------- process_csv
\* 8 if len(x)<1 else int(x)
HourValueZero(x) ==
    IF Len(x) < 1 THEN [ok |-> TRUE, val |-> 0] ELSE int(x)

HourValue(x) ==
    IF Len(x) < 1 THEN [ok |-> TRUE, val |-> DefaultHours] ELSE int(x)

\* parts[1:6]: the workday columns of a record
HourParts(parts) == SubSeq(parts, 2, NumParts)

\* [ 8 if len(x)<1 else int(x) for x in parts[1:6] ], each with its success
HourValues(parts) ==
    LET cols == HourParts(parts)
    IN  [j \in 1..Len(cols) |-> HourValue(cols[j])]

\* the list comprehension completes only if every int() does
HoursOk(hv) == \A j \in 1..Len(hv) : hv[j].ok

weekday_hours(hv) == [j \in 1..Len(hv) |-> hv[j].val]

\* dates_hours[ d ] = weekday_hours, an existing key is overwritten
Put(m, d, v) ==
    [k \in DOMAIN m \cup {d} |-> IF k = d THEN v ELSE m[k]]

\* line = l.rstrip(); parts = line.split( ',' ), for every line by name
PartsOf == [id \in DOMAIN SampleLines |-> split(rstrip(SampleLines[id]), ",")]

\* the parts of the line process_csv is looking at
CurParts == PartsOf[csvfile[lineNo]]

InCsv == pc = "csv" /\ lineNo <= Len(csvfile)

\* continue: on to the next line, nothing else changes
NextLine ==
    /\ lineNo' = lineNo + 1
    /\ UNCHANGED << inputs, keys, pc, overdue, data, dates_hours, idx, visited,
                    calls, submitted, stdout, stderr, raised, exitStatus,
                    reads >>

\* "expecting 6 parts"
CsvSkipParts ==
    /\ InCsv
    /\ Len(CurParts) # NumParts
    /\ NextLine

\* "malformed date, skipping record"
CsvSkipBadDate ==
    /\ InCsv
    /\ LET parts == CurParts
       IN  /\ Len(parts) = NumParts
           /\ ~strptime(parts[1], DATE_FORMAT).ok
    /\ NextLine

\* "date is not a Sunday, skipping record"
CsvSkipNotSunday ==
    /\ InCsv
    /\ LET parts == CurParts
           d == strptime(parts[1], DATE_FORMAT)
       IN  /\ Len(parts) = NumParts
           /\ d.ok
           /\ weekday(d.date) # SUNDAY
    /\ NextLine

\* int(x) raises ValueError, which neither process_csv nor run catches
CsvBadHour ==
    /\ InCsv
    /\ LET parts == CurParts
           d == strptime(parts[1], DATE_FORMAT)
       IN  /\ Len(parts) = NumParts
           /\ d.ok
           /\ weekday(d.date) = SUNDAY
           /\ ~HoursOk(HourValues(parts))
    /\ Uncaught("ValueError")
    /\ UNCHANGED << inputs, keys, overdue, data, dates_hours, lineNo, idx, visited,
                    calls, submitted, stdout, reads >>

\* the record is stored; the check of len( weekday_hours ) != 5 cannot
\* fail for a slice of five of six parts
CsvInsert ==
    /\ InCsv
    /\ LET parts == CurParts
           d == strptime(parts[1], DATE_FORMAT)
           hv == HourValues(parts)
       IN  /\ Len(parts) = NumParts
           /\ d.ok
           /\ weekday(d.date) = SUNDAY
           /\ HoursOk(hv)
           /\ Len(weekday_hours(hv)) = 5
           /\ dates_hours' = Put(dates_hours, d.date, weekday_hours(hv))
    /\ lineNo' = lineNo + 1
    /\ UNCHANGED << inputs, keys, pc, overdue, data, idx, visited, calls, submitted,
                    stdout, stderr, raised, exitStatus, reads >>

\* end of file: return dates_hours, run() binds it to data and starts the walk
CsvReturn ==
    /\ pc = "csv"
    /\ lineNo > Len(csvfile)
    /\ data' = dates_hours
    /\ pc' = "loop"
    /\ keys' = sorted(overdue)
    /\ idx' = 1
    /\ UNCHANGED << inputs, overdue, dates_hours, lineNo, visited, calls,
                    submitted, stdout, stderr, raised, exitStatus, reads >>

\* --------------------------------------------------------------------- run
\* reporter.get_overdue_weeks() returns the backend's overdue weeks
GetOverdueWeeks ==
    /\ pc = "start"
    /\ overdue' = backend
    /\ pc' = "check"
    /\ UNCHANGED << inputs, keys, data, dates_hours, lineNo, idx, visited, calls,
                    submitted, stdout, stderr, raised, exitStatus, reads >>

\* ... or raises (authentication, network), which run() does not catch
GetOverdueWeeksRaises ==
    /\ pc = "start"
    /\ Uncaught("CollaboratorError")
    /\ UNCHANGED << inputs, keys, overdue, data, dates_hours, lineNo, idx, visited,
                    calls, submitted, stdout, reads >>

\* if len( overdue ) < 1: raise SystemExit( "You have no overdue weeks..." )
NoOverdue ==
    /\ pc = "check"
    /\ Cardinality(overdue) < 1
    /\ SystemExit("You have no overdue weeks. Congratulations!")
    /\ UNCHANGED << inputs, keys, overdue, data, dates_hours, lineNo, idx, visited,
                    calls, submitted, stdout, reads >>

\* print( "Overdue Dates" )
ListHeader ==
    << << "O", "v", "e", "r", "d", "u", "e", " ", "D", "a", "t", "e", "s" >> >>

\* the lines --list-overdue prints
ListOutputBare(S) ==
    [n \in 1..Cardinality(S) |-> strftime(sorted(S)[n])]

ListOutput(S) ==
    ListHeader \o [n \in 1..Cardinality(S) |-> strftime(sorted(S)[n])]

\* if args.list_overdue: print the header and the sorted keys, SystemExit()
ListOverdue ==
    /\ pc = "check"
    /\ Cardinality(overdue) >= 1
    /\ args.list_overdue
    /\ stdout' = stdout \o ListOutput(overdue)
    /\ SystemExit("")
    /\ UNCHANGED << inputs, keys, overdue, data, dates_hours, lineNo, idx, visited,
                    calls, submitted, reads >>

\* if args.csv: data = process_csv( args.csv ); the file is opened
OpenCsv ==
    /\ pc = "check"
    /\ Cardinality(overdue) >= 1
    /\ ~args.list_overdue
    /\ args.csv # ""
    /\ reads' = reads \cup {"csv"}
    /\ dates_hours' = EmptyMap
    /\ lineNo' = 1
    /\ pc' = "csv"
    /\ UNCHANGED << inputs, keys, overdue, data, idx, visited, calls, submitted,
                    stdout, stderr, raised, exitStatus >>

\* pyex.weekly_hours_worked( start ): the calendar's weeks from start on
weekly_hours_worked(start) ==
    [k \in {w \in DOMAIN calendar : ~DateLess(w, start)} |-> calendar[k]]

\* elif args.exch: data = weekly_hours_worked( min( overdue.keys() ) )
LoadExch ==
    /\ pc = "check"
    /\ Cardinality(overdue) >= 1
    /\ ~args.list_overdue
    /\ args.csv = ""
    /\ args.exch
    /\ reads' = reads \cup {"exch"}
    /\ data' = weekly_hours_worked(min(overdue))
    /\ pc' = "loop"
    /\ keys' = sorted(overdue)
    /\ idx' = 1
    /\ UNCHANGED << inputs, overdue, dates_hours, lineNo, visited, calls,
                    submitted, stdout, stderr, raised, exitStatus >>

\* ... or the calendar collaborator raises
LoadExchRaises ==
    /\ pc = "check"
    /\ Cardinality(overdue) >= 1
    /\ ~args.list_overdue
    /\ args.csv = ""
    /\ args.exch
    /\ reads' = reads \cup {"exch"}
    /\ Uncaught("CollaboratorError")
    /\ UNCHANGED << inputs, keys, overdue, data, dates_hours, lineNo, idx, visited,
                    calls, submitted, stdout >>

\* for key in sorted( overdue ): the keys still to come
InLoop == pc = "loop" /\ idx <= Len(keys)

CurKey == keys[idx]

\* if not args.dryrun
SubmitsAlways(a) == TRUE

Submits(a) == ~a.dryrun

\* if args.once
StopsNever(a) == FALSE

StopsAlways(a) == TRUE

Stops(a) == a.once

\* after a matched week: SystemExit() under --once, else the next key
AfterMatch ==
    IF Stops(args)
    THEN SystemExit("") /\ idx' = idx
    ELSE /\ idx' = idx + 1
         /\ UNCHANGED << pc, raised, stderr, exitStatus >>

\* key not in data: nothing but the 'Overdue date' log line
LoopSkip ==
    /\ InLoop
    /\ CurKey \notin DOMAIN data
    /\ visited' = Append(visited, CurKey)
    /\ idx' = idx + 1
    /\ UNCHANGED << inputs, keys, pc, overdue, data, dates_hours, lineNo, calls,
                    submitted, stdout, stderr, raised, exitStatus, reads >>

\* key in data, --dryrun: the match is logged only
LoopDryRun ==
    /\ InLoop
    /\ CurKey \in DOMAIN data
    /\ ~Submits(args)
    /\ visited' = Append(visited, CurKey)
    /\ AfterMatch
    /\ UNCHANGED << inputs, keys, overdue, data, dates_hours, lineNo, calls,
                    submitted, stdout, reads >>

\* key in data: reporter.submit( date=key, hours=data[ key ] ) returns
LoopSubmit ==
    /\ InLoop
    /\ CurKey \in DOMAIN data
    /\ Submits(args)
    /\ visited' = Append(visited, CurKey)
    /\ calls' = Append(calls, [date |-> CurKey, hours |-> data[CurKey]])
    /\ submitted' = Append(submitted, CurKey)
    /\ AfterMatch
    /\ UNCHANGED << inputs, keys, overdue, data, dates_hours, lineNo, stdout, reads >>

\* key in data: reporter.submit() raises, the rest of the walk is lost
LoopSubmitRaises ==
    /\ InLoop
    /\ CurKey \in DOMAIN data
    /\ Submits(args)
    /\ visited' = Append(visited, CurKey)
    /\ calls' = Append(calls, [date |-> CurKey, hours |-> data[CurKey]])
    /\ Uncaught("CollaboratorError")
    /\ UNCHANGED << inputs, keys, overdue, data, dates_hours, lineNo, idx,
                    submitted, stdout, reads >>

\* the keys are exhausted: run() returns, the interpreter exits with 0
LoopDone ==
    /\ pc = "loop"
    /\ idx > Len(keys)
    /\ pc' = "exit"
    /\ exitStatus' = 0
    /\ UNCHANGED << inputs, keys, overdue, data, dates_hours, lineNo, idx, visited,
                    calls, submitted, stdout, stderr, raised, reads >>

Next ==
    \/ GetOverdueWeeks
    \/ GetOverdueWeeksRaises
    \/ NoOverdue
    \/ ListOverdue
    \/ OpenCsv
    \/ CsvSkipParts
    \/ CsvSkipBadDate
    \/ CsvSkipNotSunday
    \/ CsvBadHour
    \/ CsvInsert
    \/ CsvReturn
    \/ LoadExch
    \/ LoadExchRaises
    \/ LoopSkip
    \/ LoopDryRun
    \/ LoopSubmit
    \/ LoopSubmitRaises
    \/ LoopDone

Spec == Init /\ [][Next]_vars

\* ------------------------------------------------------------- vocabulary
Range(q) == {q[n] : n \in 1..Len(q)}

\* the n-th oldest date of a set: exactly n-1 dates of the set are older
NthDate(S, n) ==
    CHOOSE d \in S : Cardinality({e \in S : DateLess(e, d)}) = n - 1

\* the dates of a sequence increase strictly
Ascending(q) ==
    \A m, n \in 1..Len(q) : m < n => DateLess(q[m], q[n])

\* overdue weeks that have a record in the data mapping
Matched == overdue \cap DOMAIN data

\* the fields of the line of the file named l
FieldsOf(l) == split(rstrip(SampleLines[l]), ",")

\* the date column of a line names an existing day that is a Sunday
SundayLine(l) ==
    /\ ParseYmd(FieldsOf(l)[1]).ok
    /\ weekday(ParseYmd(FieldsOf(l)[1]).date) = SUNDAY

\* a valid line: six fields, a Sunday, hour fields empty or digits only
ValidLine(l) ==
    /\ Len(FieldsOf(l)) = 6
    /\ SundayLine(l)
    /\ \A j \in 2..6 : FieldsOf(l)[j] = << >> \/ AllDigits(FieldsOf(l)[j])

\* a line the parser is to reject: wrong field count, bad or non-Sunday date
RejectedLine(l) == Len(FieldsOf(l)) # 6 \/ ~SundayLine(l)

DateOfLine(l) == ParseYmd(FieldsOf(l)[1]).date

\* the weekly record a valid line stands for
RecordOfLine(l) ==
    [j \in 1..5 |-> IF FieldsOf(l)[j + 1] = << >> THEN 8
                    ELSE DecValue(FieldsOf(l)[j + 1])]

\* the last line of the file carrying date d
LastLineWith(d) ==
    CHOOSE n \in 1..Len(csvfile) :
        /\ DateOfLine(csvfile[n]) = d
        /\ \A m \in (n + 1)..Len(csvfile) : DateOfLine(csvfile[m]) # d

\* process_csv has returned its mapping to run()
CsvReturned == args.csv # "" /\ pc = "loop"

\* process_csv is over, by return or by exception
CsvOver == "csv" \in reads /\ pc \in {"loop", "exit"}

\* the walk over the overdue weeks was entered and ended without exception
WalkEnded ==
    pc = "exit" /\ reads # {} /\ raised \in {"", "SystemExit"}

\* ------------------------------------------------------------------ claims

\* C1: the overdue weeks are visited in strictly ascending date order, so
\* the dates of the submit calls of one run increase strictly (no week is
\* submitted after a later one, none twice).
C1_SubmitsAscend ==
    /\ Ascending(visited)
    /\ Ascending([n \in 1..Len(calls) |-> calls[n].date])

C1_Witness ==
    /\ pc = "exit"
    /\ Len(calls) >= 2
    /\ Len(visited) > Len(calls)

\* C2: under --dryrun the submission collaborator is never called, however
\* many overdue weeks have a record and whatever --once is.
C2_DryRunNeverSubmits ==
    args.dryrun => calls = << >> /\ submitted = << >>

C2_Witness ==
    /\ args.dryrun
    /\ pc = "exit"
    /\ Cardinality(Range(visited) \cap DOMAIN data) >= 2

\* C3: when get_overdue_weeks() returns no week the run ends at once and
\* successfully (exit status 0), no data source consulted, nothing submitted.
C3_EmptyOverdueSucceeds ==
    (pc = "exit" /\ raised = "SystemExit" /\ overdue = {}) =>
        /\ exitStatus = 0
        /\ reads = {}
        /\ calls = << >>

\* C4 as claimed: under --list-overdue the printed output is exactly the
\* overdue dates in ascending order and nothing else; no data source is
\* read and nothing is submitted.
C4_ListPrintsOnlyDates ==
    /\ args.list_overdue => reads = {} /\ calls = << >>
    /\ (args.list_overdue /\ pc = "exit" /\ raised = "SystemExit") =>
        /\ Len(stdout) = Cardinality(overdue)
        /\ \A n \in 1..Len(stdout) : stdout[n] = strftime(NthDate(overdue, n))

\* C4 as amended: under --list-overdue, once a non-empty overdue set was
\* fetched, the printed output is the header line "Overdue Dates" followed by
\* exactly the overdue dates in ascending order, one %Y-%b-%d entry per week;
\* with an empty overdue set nothing is printed on stdout.  In either case no
\* data source is read and nothing is submitted.
C4_ListPrintsHeaderThenDates ==
    /\ args.list_overdue => reads = {} /\ calls = << >>
    /\ (args.list_overdue /\ pc = "exit" /\ raised = "SystemExit"
            /\ overdue = {}) => stdout = << >>
    /\ (args.list_overdue /\ pc = "exit" /\ raised = "SystemExit"
            /\ overdue # {}) =>
        /\ Len(stdout) = Cardinality(overdue) + 1
        /\ stdout[1] = ListHeader[1]
        /\ \A n \in 1..Cardinality(overdue) :
               stdout[n + 1] = strftime(NthDate(overdue, n))
        /\ exitStatus = 0

C4_Witness ==
    /\ args.list_overdue
    /\ pc = "exit"
    /\ Len(stdout) = 3
    /\ stdout[2] = << "2", "0", "2", "3", "-", "J", "a", "n", "-", "0", "8" >>
    /\ stdout[3] = << "2", "0", "2", "3", "-", "J", "a", "n", "-", "1", "5" >>

\* C5: under --once the run ends right after the oldest overdue week that has
\* a record, with or without --dryrun: older weeks without a record are
\* passed over without ending the run, no later week is visited, and at most
\* one submit call is made.
C5_OnceStopsAfterFirstMatch ==
    args.once =>
        /\ Len(calls) <= 1
        /\ \A n \in 1..Len(visited) : visited[n] = NthDate(overdue, n)
        /\ \A n \in 1..(Len(visited) - 1) : visited[n] \notin DOMAIN data
        /\ (Len(visited) > 0 /\ visited[Len(visited)] \in DOMAIN data) =>
               pc = "exit"
        /\ (WalkEnded /\ Matched # {}) =>
               /\ visited[Len(visited)] = NthDate(Matched, 1)
               /\ raised = "SystemExit" /\ exitStatus = 0
        /\ (WalkEnded /\ Matched = {}) =>
               /\ Len(visited) = Cardinality(overdue)
               /\ raised = ""

C5_Witness ==
    /\ args.once
    /\ ~args.dryrun
    /\ pc = "exit"
    /\ Len(visited) = 2
    /\ Len(calls) = 1
    /\ calls[1].date = visited[2]
    /\ Cardinality(Matched) >= 2

\* C6: without --once, --dryrun and --list-overdue and without collaborator
\* failure, the completed run has made exactly one call (k, data[k]) for each
\* overdue k that is a key of the data mapping; an overdue week without a
\* record is not submitted and does not stop the run, which ends with
\* status 0.
C6_SubmitsExactlyTheMatches ==
    (WalkEnded /\ ~args.once /\ ~args.dryrun /\ ~args.list_overdue) =>
        /\ Range(calls) = {[date |-> k, hours |-> data[k]] : k \in Matched}
        /\ Len(calls) = Cardinality(Matched)
        /\ Len(visited) = Cardinality(overdue)
        /\ raised = ""
        /\ exitStatus = 0

C6_Witness ==
    /\ WalkEnded /\ ~args.once /\ ~args.dryrun
    /\ Len(calls) = 2
    /\ overdue \ DOMAIN data # {}
    /\ visited[1] \notin DOMAIN data

\* C7 as claimed: at every state of a run no overdue week older than an
\* already submitted week is itself unsubmitted (the submitted weeks are a
\* prefix of the overdue weeks in ascending order).
C7_SubmittedIsPrefixOfOverdue ==
    \A s \in Range(submitted) : \A k \in overdue :
        DateLess(k, s) => k \in Range(submitted)

\* C7 as amended: at every state of a run no overdue week that has a record
\* in the data mapping and is older than an already submitted week is itself
\* unsubmitted (the submitted weeks are a prefix, in ascending order, of the
\* overdue weeks that have a record).
C7_SubmittedIsPrefixOfMatched ==
    /\ Range(submitted) \subseteq Matched
    /\ \A s \in Range(submitted) : \A k \in Matched :
           DateLess(k, s) => k \in Range(submitted)

C7_Witness ==
    /\ pc = "exit"
    /\ raised = "CollaboratorError"
    /\ Len(submitted) >= 1
    /\ Len(calls) = Len(submitted) + 1
    /\ Matched \ Range(submitted) # {}

\* C8: for a file whose lines are all valid, the mapping process_csv returns
\* has exactly the dates of the file as keys, each mapped to the five values
\* (8 for an empty field, else the field's number) of the last line carrying
\* that date.
C8_ValidFileParsed ==
    (CsvReturned /\ \A n \in 1..Len(csvfile) : ValidLine(csvfile[n])) =>
        /\ DOMAIN data = {DateOfLine(csvfile[n]) : n \in 1..Len(csvfile)}
        /\ \A d \in DOMAIN data :
               data[d] = RecordOfLine(csvfile[LastLineWith(d)])

C8_Witness ==
    /\ CsvReturned
    /\ csvfile = << "default", "hours", "again" >>
    /\ data[<< 2023, 1, 1 >>] = << 1, 8, 3, 8, 5 >>
    /\ data[<< 2023, 1, 8 >>] = << 8, 4, 0, 12, 7 >>

\* C9: a line rejected for its field count or its date contributes no key to
\* the mapping and does not stop parsing: once process_csv is over, every
\* valid line after a rejected line it has read has been inserted.
C9_RejectedLineDoesNotStopParsing ==
    CsvOver =>
        \A m, n \in 1..Len(csvfile) :
            (m < lineNo /\ m < n
                /\ RejectedLine(csvfile[m]) /\ ValidLine(csvfile[n])) =>
                DateOfLine(csvfile[n]) \in DOMAIN dates_hours

\* C10: a line with six fields, a Sunday date and an hour field that is not a
\* number is skipped like any malformed line; process_csv still returns and
\* the error never ends the run.
C10_BadHourLineIsSkipped ==
    ~(pc = "exit" /\ raised = "ValueError")

====
